---- MODULE Spec2Model ----
(***************************************************************************)
(* Karaoke queue: the song lifecycle machine (machines/song-machine.js),   *)
(* the song store (database-sqlite.js), the HTTP handlers of server.js     *)
(* that write songs, and the actor registry (services/state-manager.js)    *)
(* that binds one machine instance to each song id.                        *)
(***************************************************************************)
EXTENDS Integers, FiniteSets, Sequences, TLC

\* ---------------------------------------------------------------- bounds
MaxSongs == 2
MaxTime == 1
MaxDelay == 1
MaxRequests == 5
MaxSessionTime == 6
MaxAdded == 4

SongIds == 1..MaxSongs
Sessions == {"S1", "S2"}
Times == 0..MaxTime
Positions == 1..MaxSongs

\* JavaScript null (timestamps and minute counts are >= 0)
Null == -1

Statuses == {"waiting", "delayed", "playing", "done", "skipped"}
SongEvents == {"PLAY", "SKIP", "DELAY", "EDIT", "COMPLETE", "DELAY_EXPIRED"}

VARIABLES
  songs,     \* the songs table: song id -> row
  nextId,    \* AUTOINCREMENT counter of the songs table
  actors,    \* registry cache: song id -> live machine instance
  now,       \* Date.now(): minutes in the song specifications, seconds in
             \* the session specifications (which convert no minutes)
  resp,      \* the response of the last request
  requests,  \* the number of HTTP requests served
  sessions,  \* the sessions table: session id -> row
  sessionActors, \* registry cache: session id -> live machine instance
  undoStack,     \* the DJ page's undo stack
  lastApplied,   \* history: the last transition the DJ page had accepted
                 \* and has not undone, with the status the song had before
  entered        \* history: session id -> the times its endings began

vars == <<songs, nextId, actors, now, resp, requests, sessions, sessionActors,
          undoStack, lastApplied, entered>>

sessionVars == <<sessions, sessionActors>>

\* the DJ page's undo stack and the history variables
auxVars == <<undoStack, lastApplied, entered>>

\* no transition stands to be undone
NoAction == [songId |-> 0, previousStatus |-> ""]

\* ------------------------------------------------------------ song store
Row(sess, pos) ==
  [session_id |-> sess, position |-> pos, status |-> "waiting",
   delayed_until |-> Null, delay_minutes |-> Null]

\* SELECT * FROM songs WHERE id = ?: the rows found, none for an unknown id
getSongById(songId) == IF songId \in DOMAIN songs THEN {songs[songId]} ELSE {}

\* ids of the rows of one session (SELECT ... WHERE session_id = ?)
getSongs(sessionId) == {i \in DOMAIN songs : songs[i].session_id = sessionId}

\* SELECT COALESCE(MAX(position), 0)
getMaxPosition(sessionId) ==
  LET positions == {songs[i].position : i \in getSongs(sessionId)}
  IN  IF positions = {} THEN 0
      ELSE CHOOSE p \in positions : \A q \in positions : q <= p

\* rows ORDER BY position ASC come out of the (session_id, position) index,
\* equal positions in rowid order
Before(i, j) ==
  \/ songs[i].position < songs[j].position
  \/ songs[i].position = songs[j].position /\ i < j

\* (variant: the status filter is missing)
getNextPlayableSong_anyStatus(sessionId) ==
  IF getSongs(sessionId) = {} THEN Null
  ELSE CHOOSE i \in getSongs(sessionId) :
         \A j \in getSongs(sessionId) \ {i} : Before(i, j)

\* (variant: the sort is descending)
getNextPlayableSong_descending(sessionId) ==
  LET waitingSongs == {i \in getSongs(sessionId) : songs[i].status = "waiting"}
  IN  IF waitingSongs = {} THEN Null
      ELSE CHOOSE i \in waitingSongs : \A j \in waitingSongs \ {i} : Before(j, i)

\* (variant: a delayed song keeps its place in the line)
getNextPlayableSong_delayedInLine(sessionId) ==
  LET waitingSongs == {i \in getSongs(sessionId) :
                         songs[i].status \in {"waiting", "delayed"}}
  IN  IF waitingSongs = {} THEN Null
      ELSE CHOOSE i \in waitingSongs : \A j \in waitingSongs \ {i} : Before(i, j)

\* first waiting song by position, or null
getNextPlayableSong(sessionId) ==
  LET waitingSongs == {i \in getSongs(sessionId) : songs[i].status = "waiting"}
  IN  IF waitingSongs = {} THEN Null
      ELSE CHOOSE i \in waitingSongs : \A j \in waitingSongs \ {i} : Before(i, j)

\* ---------------------------------------------------------- song machine
\* guards of songMachine
\* (variant: the guard lets every PLAY through)
isNextInQueue_open(context) == TRUE

isNextInQueue(context) == context.isNextInQueue = TRUE

canBeDelayed(context) == context.delayedUntil = Null

canBeEdited(context) == TRUE

\* (variant: the delay is not clamped at zero)
DELAY_DURATION_unclamped(context, clock) ==
  IF context.delayedUntil = Null THEN 0 ELSE context.delayedUntil - clock

\* delays.DELAY_DURATION: Math.max(0, delayedUntil - Date.now())
DELAY_DURATION(context, clock) ==
  IF context.delayedUntil = Null THEN 0
  ELSE LET delayTime == context.delayedUntil - clock
       IN  IF delayTime > 0 THEN delayTime ELSE 0

\* the event the `after` timer of state delayed raises
AfterDelay == "xstate.after.DELAY_DURATION"

Event(type) == [type |-> type, delayedUntil |-> Null, delayMinutes |-> Null]

DelayEvent(until, minutes) ==
  [type |-> "DELAY", delayedUntil |-> until, delayMinutes |-> minutes]

Take(guard, target, context) ==
  [defined |-> TRUE, guard |-> guard, target |-> target, context |-> context]

\* the event is not in the state's `on`
NoTransition(value, context) ==
  [defined |-> FALSE, guard |-> FALSE, target |-> value, context |-> context]

\* states.waiting.on
waiting(context, event) ==
  CASE event.type = "PLAY" -> Take(isNextInQueue(context), "playing", context)
    [] event.type = "SKIP" -> Take(TRUE, "skipped", context)
    [] event.type = "DELAY" ->
         Take(canBeDelayed(context), "delayed",
              [context EXCEPT !.delayedUntil = event.delayedUntil,
                              !.delayMinutes = event.delayMinutes])
    [] event.type = "EDIT" -> Take(canBeEdited(context), "waiting", context)
    [] OTHER -> NoTransition("waiting", context)

\* (variant: SKIP in delayed puts the song back in the queue)
delayed_skipReturns(context, event) ==
  CASE event.type \in {"DELAY_EXPIRED", AfterDelay} ->
         Take(TRUE, "waiting",
              [context EXCEPT !.delayedUntil = Null, !.delayMinutes = Null])
    [] event.type = "SKIP" -> Take(TRUE, "waiting", context)
    [] OTHER -> NoTransition("delayed", context)

\* (variant: delayed takes DELAY under the guard of waiting)
delayed_guardsDelay(context, event) ==
  CASE event.type \in {"DELAY_EXPIRED", AfterDelay} ->
         Take(TRUE, "waiting",
              [context EXCEPT !.delayedUntil = Null, !.delayMinutes = Null])
    [] event.type = "SKIP" -> Take(TRUE, "skipped", context)
    [] event.type = "DELAY" ->
         Take(canBeDelayed(context), "delayed",
              [context EXCEPT !.delayedUntil = event.delayedUntil,
                              !.delayMinutes = event.delayMinutes])
    [] OTHER -> NoTransition("delayed", context)

\* (variant: delayed also takes PLAY)
delayed_alsoPlays(context, event) ==
  CASE event.type \in {"DELAY_EXPIRED", AfterDelay} ->
         Take(TRUE, "waiting",
              [context EXCEPT !.delayedUntil = Null, !.delayMinutes = Null])
    [] event.type = "SKIP" -> Take(TRUE, "skipped", context)
    [] event.type = "PLAY" -> Take(TRUE, "playing", context)
    [] OTHER -> NoTransition("delayed", context)

\* states.delayed.on and states.delayed.after
delayed(context, event) ==
  CASE event.type \in {"DELAY_EXPIRED", AfterDelay} ->
         Take(TRUE, "waiting",
              [context EXCEPT !.delayedUntil = Null, !.delayMinutes = Null])
    [] event.type = "SKIP" -> Take(TRUE, "skipped", context)
    [] OTHER -> NoTransition("delayed", context)

\* (variant: COMPLETE ends in skipped)
playing_completeSkips(context, event) ==
  CASE event.type = "COMPLETE" -> Take(TRUE, "skipped", context)
    [] event.type = "SKIP" -> Take(TRUE, "skipped", context)
    [] OTHER -> NoTransition("playing", context)

\* states.playing.on
playing(context, event) ==
  CASE event.type = "COMPLETE" -> Take(TRUE, "done", context)
    [] event.type = "SKIP" -> Take(TRUE, "skipped", context)
    [] OTHER -> NoTransition("playing", context)

\* (variant: a final state takes SKIP)
final_takesSkip(value, context, event) ==
  IF event.type = "SKIP" THEN Take(TRUE, "skipped", context)
  ELSE NoTransition(value, context)

\* states.done and states.skipped are final: they take no event
final(value, context, event) == NoTransition(value, context)

\* the candidate transition of the machine for an event: whether the state
\* defines it, its guard's verdict, its target and the context after its
\* assign actions
songMachine(value, context, event) ==
  CASE value = "waiting" -> waiting(context, event)
    [] value = "delayed" -> delayed(context, event)
    [] value = "playing" -> playing(context, event)
    [] OTHER -> final(value, context, event)

\* snapshot.can(event)
can(snapshot, event) ==
  LET t == songMachine(snapshot.value, snapshot.context, event)
  IN  t.defined /\ t.guard

\* actor.send(event): entering delayed schedules the `after` timer with the
\* delay computed from the context after the assign; leaving it cancels it
send(snapshot, event, clock) ==
  LET t == songMachine(snapshot.value, snapshot.context, event)
  IN  IF t.defined /\ t.guard
      THEN [value |-> t.target, context |-> t.context,
            timer |-> IF t.target = "delayed"
                      THEN clock + DELAY_DURATION(t.context, clock)
                      ELSE Null]
      ELSE snapshot

FinalStates == {"done", "skipped"}

\* createSongMachine(songData): the context of a new instance
createSongMachine(songData) ==
  [position |-> songData.position,
   delayedUntil |-> songData.delayed_until,
   delayMinutes |-> songData.delay_minutes,
   isNextInQueue |-> songData.isNextInQueue]

getStateFromStatus(status) == IF status \in Statuses THEN status ELSE "waiting"

getStatusFromState(state) == state.value

\* ------------------------------------------------------- actor registry
Response(op, id, event, result) ==
  [op |-> op, id |-> id, event |-> event, result |-> result]

\* this song is the next playable song of its session, from the store as it
\* is now
computeIsNextInQueue(songId) ==
  getNextPlayableSong(songs[songId].session_id) = songId

\* getOrCreate: the cached instance, else one restored from the persisted
\* row; a restored instance has entered no state, so holds no timer
getOrCreate(songId) ==
  IF songId \in DOMAIN actors THEN actors[songId]
  ELSE [value |-> getStateFromStatus(songs[songId].status),
        context |-> createSongMachine(
          [position |-> songs[songId].position,
           delayed_until |-> songs[songId].delayed_until,
           delay_minutes |-> songs[songId].delay_minutes,
           isNextInQueue |-> computeIsNextInQueue(songId)]),
        timer |-> Null]

\* getState('song', songId): the state of the instance and what it can do
getState(songId) ==
  LET snapshot == getOrCreate(songId)
  IN  [value |-> snapshot.value,
       context |-> snapshot.context,
       can |-> [play |-> can(snapshot, Event("PLAY")),
                skip |-> can(snapshot, Event("SKIP")),
                delay |-> can(snapshot, DelayEvent(now + 1, 1)),
                edit |-> can(snapshot, Event("EDIT"))]]

\* (variant: the instance keeps the isNextInQueue it was created with)
prepare_stale(songId, event) == getOrCreate(songId)

\* the instance handed to send: isNextInQueue is recomputed before a PLAY
prepare(songId, event) ==
  IF event.type = "PLAY"
  THEN [getOrCreate(songId) EXCEPT
          !.context.isNextInQueue = computeIsNextInQueue(songId)]
  ELSE getOrCreate(songId)

\* (variant: the query reads the instance as it is cached)
canTransition_cached(songId, event) ==
  IF getSongById(songId) = {} THEN FALSE
  ELSE can(getOrCreate(songId), event)

\* canTransition('song', songId, event): whether the instance a transition
\* would be sent to can take the event
canTransition(songId, event) ==
  IF getSongById(songId) = {} THEN FALSE
  ELSE can(prepare(songId, event), event)

\* the typed error of a transition the machine did not take
typedError(snapshot, event) ==
  IF songMachine(snapshot.value, snapshot.context, event).defined
  THEN "GuardRejected" ELSE "InvalidTransition"

\* persistStatus: the new status and, entering or leaving delayed, the
\* delay fields
persist(songId, before, after) ==
  IF songId \notin DOMAIN songs THEN songs
  ELSE IF "delayed" \in {before.value, after.value}
  THEN [songs EXCEPT ![songId].status = getStatusFromState(after),
                     ![songId].delayed_until = after.context.delayedUntil,
                     ![songId].delay_minutes = after.context.delayMinutes]
  ELSE [songs EXCEPT ![songId].status = getStatusFromState(after)]

\* (variant: instances in a final state stay cached)
cache_keepsFinal(songId, snapshot) ==
  [i \in DOMAIN actors \cup {songId} |->
     IF i = songId THEN snapshot ELSE actors[i]]

\* the cache after a transition: terminal instances are evicted
cache(songId, snapshot) ==
  IF snapshot.value \in FinalStates
  THEN [i \in DOMAIN actors \ {songId} |-> actors[i]]
  ELSE [i \in DOMAIN actors \cup {songId} |->
          IF i = songId THEN snapshot ELSE actors[i]]

\* (variant: the instance's state is written back also when the event was
\* rejected)
transitionSong_writesOnReject(songId, event) ==
  IF getSongById(songId) = {}
  THEN /\ resp' = Response("transition", songId, event.type, "NotFound")
       /\ UNCHANGED <<songs, nextId, actors, now>>
  ELSE LET actor == prepare(songId, event)
       IN  /\ songs' = persist(songId, actor, send(actor, event, now))
           /\ actors' = cache(songId, send(actor, event, now))
           /\ resp' = Response("transition", songId, event.type,
                               IF can(actor, event) THEN "ok"
                               ELSE typedError(actor, event))
           /\ UNCHANGED <<nextId, now>>

\* transition(songId, event)
transitionSong(songId, event) ==
  IF getSongById(songId) = {}
  THEN /\ resp' = Response("transition", songId, event.type, "NotFound")
       /\ UNCHANGED <<songs, nextId, actors, now>>
  ELSE LET actor == prepare(songId, event)
       IN  IF can(actor, event)
           THEN /\ songs' = persist(songId, actor, send(actor, event, now))
                /\ actors' = cache(songId, send(actor, event, now))
                /\ resp' = Response("transition", songId, event.type, "ok")
                /\ UNCHANGED <<nextId, now>>
           ELSE /\ actors' = cache(songId, actor)
                /\ resp' = Response("transition", songId, event.type,
                                    typedError(actor, event))
                /\ UNCHANGED <<songs, nextId, now>>

\* the `after` timer of a delayed instance fires once its delay has elapsed
delayTimerFires(songId) ==
  /\ songId \in DOMAIN actors
  /\ actors[songId].timer # Null
  /\ actors[songId].timer <= now
  /\ songs' = persist(songId, actors[songId],
                      send(actors[songId], Event(AfterDelay), now))
  /\ actors' = cache(songId, send(actors[songId], Event(AfterDelay), now))
  /\ resp' = Response("timer", songId, AfterDelay, "ok")
  /\ UNCHANGED <<nextId, now, requests>>
  /\ UNCHANGED sessionVars
  /\ UNCHANGED auxVars

\* ------------------------------------------------- song store, writes
\* (variant: the position is the number of songs of the session plus one,
\* as in the JSON store)
addSong_countPlusOne(sessionId) ==
  [i \in DOMAIN songs \cup {nextId} |->
     IF i = nextId THEN Row(sessionId, Cardinality(getSongs(sessionId)) + 1)
     ELSE songs[i]]

\* (variant: the song is inserted at the lowest position of the session)
addSong_atFront(sessionId) ==
  [i \in DOMAIN songs \cup {nextId} |->
     IF i = nextId
     THEN Row(sessionId,
              IF getSongs(sessionId) = {} THEN 1
              ELSE CHOOSE p \in {songs[j].position : j \in getSongs(sessionId)} :
                     \A j \in getSongs(sessionId) : p <= songs[j].position)
     ELSE songs[i]]

\* INSERT at position MAX(position) + 1 with status 'waiting'
addSong(sessionId) ==
  [i \in DOMAIN songs \cup {nextId} |->
     IF i = nextId THEN Row(sessionId, getMaxPosition(sessionId) + 1)
     ELSE songs[i]]

\* UPDATE songs SET status = ? WHERE id = ?
updateSongStatus(songId, status) ==
  IF songId \in DOMAIN songs
  THEN [songs EXCEPT ![songId].status = status] ELSE songs

\* UPDATE songs SET position = ? WHERE id = ?
updateSongPosition(songId, position) ==
  IF songId \in DOMAIN songs
  THEN [songs EXCEPT ![songId].position = position] ELSE songs

\* DELETE FROM songs WHERE id = ?
deleteSong(songId) == [i \in DOMAIN songs \ {songId} |-> songs[i]]

\* (variant: the transaction runs no update)
reorderSongs_noUpdate(sessionId, songPositions) == songs

\* one transaction running updateSongPosition for every supplied pair;
\* the session id takes no part in the update
reorderSongs(sessionId, songPositions) ==
  [i \in DOMAIN songs |->
     IF i \in DOMAIN songPositions
     THEN [songs[i] EXCEPT !.position = songPositions[i]] ELSE songs[i]]

\* the loop of reorderSongs over a list of {id, position} pairs, from the
\* rows it starts with: updateSongPosition.run for each pair in turn, an
\* unknown id changing nothing; a null position violates NOT NULL and the
\* statement throws, which ends the loop
RECURSIVE runUpdates(_, _)
runUpdates(rows, songPositions) ==
  IF songPositions = <<>> THEN [rows |-> rows, threw |-> FALSE]
  ELSE LET pair == Head(songPositions)
       IN  IF pair.position = Null THEN [rows |-> rows, threw |-> TRUE]
           ELSE runUpdates(
                  [i \in DOMAIN rows |->
                     IF i = pair.id
                     THEN [rows[i] EXCEPT !.position = pair.position]
                     ELSE rows[i]],
                  Tail(songPositions))

\* (variant: the updates run outside a transaction, as the forEach of the
\* JSON store does)
transaction_noRollback(outcome) == outcome.rows

\* db.transaction: commits when the function returns, rolls back to the
\* rows as they were when it throws
transaction(outcome) == IF outcome.threw THEN songs ELSE outcome.rows

\* UPDATE songs SET delayed_until = ?, delay_minutes = ?
\*   WHERE id = ? AND status = 'waiting'
setSongDelay(songId, delayMinutes) ==
  IF songId \in DOMAIN songs /\ songs[songId].status = "waiting"
  THEN [songs EXCEPT ![songId].delayed_until = now + delayMinutes,
                     ![songId].delay_minutes = delayMinutes]
  ELSE songs

\* ---------------------------------------------------------- HTTP handlers
\* one more request is served
Served ==
  /\ requests < MaxRequests
  /\ requests' = requests + 1

\* POST /api/sessions/:sessionId/songs
PostSong(sessionId) ==
  /\ Served
  /\ nextId <= MaxSongs
  /\ songs' = addSong(sessionId)
  /\ nextId' = nextId + 1
  /\ resp' = Response("add", nextId, "", "ok")
  /\ UNCHANGED <<actors, now>>
  /\ UNCHANGED sessionVars
  /\ UNCHANGED auxVars

\* POST /api/sessions/:sessionId/songs while fewer than `limit` songs have
\* been requested
PostSongUpTo(sessionId, limit) ==
  /\ Served
  /\ nextId <= limit
  /\ songs' = addSong(sessionId)
  /\ nextId' = nextId + 1
  /\ resp' = Response("add", nextId, "", "ok")
  /\ UNCHANGED <<actors, now>>
  /\ UNCHANGED sessionVars
  /\ UNCHANGED auxVars

\* PUT /api/songs/:id/position
PutPosition(songId, position) ==
  /\ Served
  /\ songs' = updateSongPosition(songId, position)
  /\ resp' = Response("position", songId, "", "ok")
  /\ UNCHANGED <<nextId, actors, now>>
  /\ UNCHANGED sessionVars
  /\ UNCHANGED auxVars

\* PUT /api/songs/:id/status (the DJ's bulk update and undo use it)
PutStatus(songId, status) ==
  /\ Served
  /\ songs' = updateSongStatus(songId, status)
  /\ resp' = Response("status", songId, status, "ok")
  /\ UNCHANGED <<nextId, actors, now>>
  /\ UNCHANGED sessionVars
  /\ UNCHANGED auxVars

\* DELETE /api/songs/:id
DeleteSong(songId) ==
  /\ Served
  /\ songs' = deleteSong(songId)
  /\ resp' = Response("delete", songId, "", "ok")
  /\ UNCHANGED <<nextId, actors, now>>
  /\ UNCHANGED sessionVars
  /\ UNCHANGED auxVars

\* PUT /api/sessions/:sessionId/reorder
PutReorder(sessionId, songPositions) ==
  /\ Served
  /\ songs' = reorderSongs(sessionId, songPositions)
  /\ resp' = Response("reorder", 0, sessionId, "ok")
  /\ UNCHANGED <<nextId, actors, now>>
  /\ UNCHANGED sessionVars
  /\ UNCHANGED auxVars

\* PUT /api/sessions/:sessionId/reorder with the pairs as the list the body
\* holds: what reorderSongs throws is caught and answered with 500
PutReorderList(sessionId, songPositions) ==
  /\ Served
  /\ songs' = transaction(runUpdates(songs, songPositions))
  /\ resp' = Response("reorder", 0, sessionId,
                      IF runUpdates(songs, songPositions).threw
                      THEN "500" ELSE "ok")
  /\ UNCHANGED <<nextId, actors, now>>
  /\ UNCHANGED sessionVars
  /\ UNCHANGED auxVars

\* (variant: the status is not looked at)
singerCheck_anyStatus(songId) ==
  IF getSongById(songId) = {} THEN "404" ELSE "ok"

\* the singer's requests answer 404 for an unknown song and 400 for a song
\* that is not waiting
singerCheck(songId) ==
  IF getSongById(songId) = {} THEN "404"
  ELSE IF songs[songId].status # "waiting" THEN "400" ELSE "ok"

\* PUT /api/songs/:id/update (artist and title are not part of the model)
PutUpdate(songId) ==
  /\ Served
  /\ resp' = Response("update", songId, "", singerCheck(songId))
  /\ UNCHANGED <<songs, nextId, actors, now>>
  /\ UNCHANGED sessionVars
  /\ UNCHANGED auxVars

\* PUT /api/songs/:id/cancel
PutCancel(songId) ==
  /\ Served
  /\ songs' = IF singerCheck(songId) = "ok"
              THEN updateSongStatus(songId, "skipped") ELSE songs
  /\ resp' = Response("cancel", songId, "", singerCheck(songId))
  /\ UNCHANGED <<nextId, actors, now>>
  /\ UNCHANGED sessionVars
  /\ UNCHANGED auxVars

\* PUT /api/songs/:id/delay
PutDelay(songId, delay_minutes) ==
  /\ Served
  /\ IF singerCheck(songId) # "ok"
     THEN /\ resp' = Response("delay", songId, "", singerCheck(songId))
          /\ songs' = songs
     ELSE IF delay_minutes < 1 \/ delay_minutes > 30
     THEN /\ resp' = Response("delay", songId, "", "400")
          /\ songs' = songs
     ELSE /\ songs' = setSongDelay(songId, delay_minutes)
          /\ resp' = Response("delay", songId, "", "ok")
  /\ UNCHANGED <<nextId, actors, now>>
  /\ UNCHANGED sessionVars
  /\ UNCHANGED auxVars

\* POST /api/songs/:id/transition
PostTransition(songId, event) ==
  /\ Served
  /\ transitionSong(songId, event)
  /\ UNCHANGED sessionVars
  /\ UNCHANGED auxVars

\* GET /api/songs/:id/can-transition/:event: the instance is the cached one
\* or is restored and cached by getOrCreate
GetCanTransition(songId, event) ==
  /\ Served
  /\ resp' = Response("canTransition", songId, event.type,
                      IF canTransition(songId, event) THEN "true" ELSE "false")
  /\ actors' = IF getSongById(songId) = {} THEN actors
               ELSE cache(songId, getOrCreate(songId))
  /\ UNCHANGED <<songs, nextId, now>>
  /\ UNCHANGED sessionVars
  /\ UNCHANGED auxVars

\* ------------------------------------------------------------- DJ page
\* the undo stack keeps the last UndoDepth actions, and an action can be
\* undone for UndoWindow minutes
UndoDepth == 10
UndoWindow == 5

\* transitionSong of the DJ page: the action is pushed on the undo stack
\* with the status the song is listed with, then the transition is
\* requested; the push is not taken back when the request is refused
DjTransition(songId, event) ==
  /\ Served
  /\ transitionSong(songId, event)
  /\ undoStack' =
       IF songId \in DOMAIN songs
       THEN Append(IF Len(undoStack) >= UndoDepth THEN Tail(undoStack)
                   ELSE undoStack,
                   [songId |-> songId, previousStatus |-> songs[songId].status,
                    newStatus |-> event.type, timestamp |-> now])
       ELSE undoStack
  /\ lastApplied' =
       IF resp'.result = "ok"
       THEN [songId |-> songId, previousStatus |-> songs[songId].status]
       ELSE lastApplied
  /\ UNCHANGED <<sessionVars, entered>>

\* undoLastAction of the DJ page: the status of the top entry is written
\* back through the status endpoint and the entry is popped; an entry older
\* than the window empties the stack instead
DjUndo ==
  /\ undoStack # <<>>
  /\ LET lastAction == undoStack[Len(undoStack)]
     IN  IF now - lastAction.timestamp > UndoWindow
         THEN /\ undoStack' = <<>>
              /\ UNCHANGED <<songs, nextId, actors, now, resp, requests, lastApplied>>
         ELSE /\ Served
              /\ songs' = updateSongStatus(lastAction.songId, lastAction.previousStatus)
              /\ resp' = Response("status", lastAction.songId,
                                  lastAction.previousStatus, "ok")
              /\ undoStack' = SubSeq(undoStack, 1, Len(undoStack) - 1)
              /\ lastApplied' = NoAction
              /\ UNCHANGED <<nextId, actors, now>>
  /\ UNCHANGED <<sessionVars, entered>>

\* a minute passes; a timer that is due fires before the next one does
Tick ==
  /\ now < MaxTime
  /\ \A i \in DOMAIN actors : actors[i].timer = Null \/ actors[i].timer > now
  /\ now' = now + 1
  /\ UNCHANGED <<songs, nextId, actors, resp, requests>>
  /\ UNCHANGED sessionVars
  /\ UNCHANGED auxVars

\* -------------------------------------------------------- session machine
\* default of sessions.song_duration and of the machine context, in seconds
DefaultSongDuration == 270

\* the grace period of state ending: after 5000 ms, in seconds
GRACE_PERIOD == 5

SessionStatuses == {"active", "paused", "ending", "ended"}

NoTips == [venmo_handle |-> Null, cashapp_handle |-> Null, zelle_handle |-> Null]

\* the tip handles a request may carry (one handle stands for a text)
TipHandles == {NoTips, [NoTips EXCEPT !.venmo_handle = 1]}

SongDurations == {DefaultSongDuration, 180}

\* the event the `after` timer of state ending raises
AfterGrace == "xstate.after.5000"

SessionEvent(type) ==
  [type |-> type, songDuration |-> Null, tipHandles |-> NoTips]

\* createSession: a row with the given duration and handles; status is the
\* column the registry keeps, default 'active'
SessionRow(songDuration, tipHandles) ==
  [status |-> "active", song_duration |-> songDuration, tips |-> tipHandles]

getSession(sessionId) ==
  IF sessionId \in DOMAIN sessions THEN {sessions[sessionId]} ELSE {}

\* UPDATE sessions SET venmo_handle = ?, cashapp_handle = ?, zelle_handle = ?
updateSessionTips(sessionId, tipHandles) ==
  IF sessionId \in DOMAIN sessions
  THEN [sessions EXCEPT ![sessionId].tips = tipHandles] ELSE sessions

\* (variant: UPDATE_DURATION also clears the tip handles)
active_durationClearsTips(context, event) ==
  CASE event.type = "PAUSE" -> Take(TRUE, "paused", context)
    [] event.type = "END" -> Take(TRUE, "ending", context)
    [] event.type = "UPDATE_DURATION" ->
         Take(TRUE, "active", [context EXCEPT !.songDuration = event.songDuration,
                                              !.tipHandles = NoTips])
    [] event.type = "UPDATE_TIPS" ->
         Take(TRUE, "active", [context EXCEPT !.tipHandles = event.tipHandles])
    [] OTHER -> NoTransition("active", context)

\* states.active.on
active(context, event) ==
  CASE event.type = "PAUSE" -> Take(TRUE, "paused", context)
    [] event.type = "END" -> Take(TRUE, "ending", context)
    [] event.type = "UPDATE_DURATION" ->
         Take(TRUE, "active", [context EXCEPT !.songDuration = event.songDuration])
    [] event.type = "UPDATE_TIPS" ->
         Take(TRUE, "active", [context EXCEPT !.tipHandles = event.tipHandles])
    [] OTHER -> NoTransition("active", context)

\* (variant: paused also takes PAUSE)
paused_pausesAgain(context, event) ==
  CASE event.type = "RESUME" -> Take(TRUE, "active", context)
    [] event.type = "END" -> Take(TRUE, "ending", context)
    [] event.type = "PAUSE" -> Take(TRUE, "paused", context)
    [] OTHER -> NoTransition("paused", context)

\* states.paused.on
paused(context, event) ==
  CASE event.type = "RESUME" -> Take(TRUE, "active", context)
    [] event.type = "END" -> Take(TRUE, "ending", context)
    [] OTHER -> NoTransition("paused", context)

\* (variant: CANCEL_END pauses the session)
ending_cancelPauses(context, event) ==
  CASE event.type = AfterGrace -> Take(TRUE, "ended", context)
    [] event.type = "CANCEL_END" -> Take(TRUE, "paused", context)
    [] OTHER -> NoTransition("ending", context)

\* states.ending.on and states.ending.after
ending(context, event) ==
  CASE event.type = AfterGrace -> Take(TRUE, "ended", context)
    [] event.type = "CANCEL_END" -> Take(TRUE, "active", context)
    [] OTHER -> NoTransition("ending", context)

\* (variant: an ended session can be revived by CANCEL_END)
ended_takesCancel(context, event) ==
  CASE event.type = "CANCEL_END" -> Take(TRUE, "active", context)
    [] OTHER -> NoTransition("ended", context)

\* states.ended is final: it takes no event
ended(context, event) == NoTransition("ended", context)

sessionMachine(value, context, event) ==
  CASE value = "active" -> active(context, event)
    [] value = "paused" -> paused(context, event)
    [] value = "ending" -> ending(context, event)
    [] OTHER -> ended(context, event)

\* createSessionMachine(sessionData): the context of a new instance
createSessionMachine(sessionData) ==
  [songDuration |-> sessionData.song_duration, tipHandles |-> sessionData.tips]

getSessionStateFromStatus(status) ==
  IF status \in SessionStatuses THEN status ELSE "active"

\* ----------------------------------------------- session actor registry
sessionCan(snapshot, event) ==
  LET t == sessionMachine(snapshot.value, snapshot.context, event)
  IN  t.defined /\ t.guard

\* (variant: a timer once armed is neither cancelled nor armed anew)
sessionSend_keepsTimer(snapshot, event, clock) ==
  LET t == sessionMachine(snapshot.value, snapshot.context, event)
  IN  IF t.defined /\ t.guard
      THEN [value |-> t.target, context |-> t.context,
            timer |-> IF snapshot.timer # Null THEN snapshot.timer
                      ELSE IF t.target = "ending" THEN clock + GRACE_PERIOD
                      ELSE Null]
      ELSE snapshot

\* actor.send(event): entering ending schedules the grace timer; leaving it
\* cancels it
sessionSend(snapshot, event, clock) ==
  LET t == sessionMachine(snapshot.value, snapshot.context, event)
  IN  IF t.defined /\ t.guard
      THEN [value |-> t.target, context |-> t.context,
            timer |-> IF t.target = "ending" THEN clock + GRACE_PERIOD ELSE Null]
      ELSE snapshot

\* getOrCreate: the cached instance, else one restored from the persisted
\* row; a restored instance has entered no state, so holds no timer
getOrCreateSession(sessionId) ==
  IF sessionId \in DOMAIN sessionActors THEN sessionActors[sessionId]
  ELSE [value |-> getSessionStateFromStatus(sessions[sessionId].status),
        context |-> createSessionMachine(sessions[sessionId]),
        timer |-> Null]

sessionTypedError(snapshot, event) ==
  IF sessionMachine(snapshot.value, snapshot.context, event).defined
  THEN "GuardRejected" ELSE "InvalidTransition"

\* persistStatus: the new status and the context fields
persistSession(sessionId, after) ==
  IF sessionId \notin DOMAIN sessions THEN sessions
  ELSE [sessions EXCEPT ![sessionId].status = after.value,
                        ![sessionId].song_duration = after.context.songDuration,
                        ![sessionId].tips = after.context.tipHandles]

\* the cache after a transition: an ended instance is evicted
cacheSession(sessionId, snapshot) ==
  IF snapshot.value = "ended"
  THEN [i \in DOMAIN sessionActors \ {sessionId} |-> sessionActors[i]]
  ELSE [i \in DOMAIN sessionActors \cup {sessionId} |->
          IF i = sessionId THEN snapshot ELSE sessionActors[i]]

\* transition('session', sessionId, event)
transitionSession(sessionId, event) ==
  IF getSession(sessionId) = {}
  THEN /\ resp' = Response("sessionTransition", sessionId, event.type, "NotFound")
       /\ UNCHANGED sessionVars
  ELSE LET actor == getOrCreateSession(sessionId)
       IN  IF sessionCan(actor, event)
           THEN /\ sessions' = persistSession(sessionId, sessionSend(actor, event, now))
                /\ sessionActors' = cacheSession(sessionId, sessionSend(actor, event, now))
                /\ resp' = Response("sessionTransition", sessionId, event.type, "ok")
           ELSE /\ sessionActors' = cacheSession(sessionId, actor)
                /\ resp' = Response("sessionTransition", sessionId, event.type,
                                    sessionTypedError(actor, event))
                /\ UNCHANGED sessions

\* the grace timer of an ending instance fires once the period has elapsed
graceTimerFires(sessionId) ==
  /\ sessionId \in DOMAIN sessionActors
  /\ sessionActors[sessionId].timer # Null
  /\ sessionActors[sessionId].timer <= now
  /\ sessions' = persistSession(sessionId,
                   sessionSend(sessionActors[sessionId], SessionEvent(AfterGrace), now))
  /\ sessionActors' = cacheSession(sessionId,
                   sessionSend(sessionActors[sessionId], SessionEvent(AfterGrace), now))
  /\ resp' = Response("sessionTimer", sessionId, AfterGrace, "ok")
  /\ UNCHANGED <<songs, nextId, actors, now, requests>>
  /\ UNCHANGED auxVars

\* POST /api/sessions/:id/transition
PostSessionTransition(sessionId, event) ==
  /\ Served
  /\ transitionSession(sessionId, event)
  /\ UNCHANGED <<songs, nextId, actors, now>>
  /\ UNCHANGED auxVars

\* PUT /api/sessions/:sessionId/tips
PutTips(sessionId, tipHandles) ==
  /\ Served
  /\ sessions' = updateSessionTips(sessionId, tipHandles)
  /\ resp' = Response("tips", sessionId, "", "ok")
  /\ UNCHANGED <<songs, nextId, actors, now, sessionActors>>
  /\ UNCHANGED auxVars

\* a second passes; a timer that is due fires before the next one does
SessionTick ==
  /\ now < MaxSessionTime
  /\ \A i \in DOMAIN actors : actors[i].timer = Null \/ actors[i].timer > now
  /\ \A i \in DOMAIN sessionActors :
       sessionActors[i].timer = Null \/ sessionActors[i].timer > now
  /\ now' = now + 1
  /\ UNCHANGED <<songs, nextId, actors, resp, requests, sessions, sessionActors>>
  /\ UNCHANGED auxVars

SessionEvents ==
  {SessionEvent(t) : t \in {"PAUSE", "RESUME", "END", "CANCEL_END"}}
    \cup {[SessionEvent("UPDATE_DURATION") EXCEPT !.songDuration = d] :
            d \in SongDurations}
    \cup {[SessionEvent("UPDATE_TIPS") EXCEPT !.tipHandles = h] : h \in TipHandles}

\* ------------------------------------------------------------ behaviours
ManualEvents ==
  {Event(t) : t \in {"PLAY", "SKIP", "EDIT", "COMPLETE", "DELAY_EXPIRED"}}
    \cup {DelayEvent(u, m) : u \in Times, m \in 1..MaxDelay}

ReorderInputs == UNION {[D -> Positions] : D \in SUBSET SongIds}

Init ==
  /\ songs = [i \in {} |-> Null]
  /\ nextId = 1
  /\ actors = [i \in {} |-> Null]
  /\ now = 0
  /\ resp = Response("none", 0, "", "ok")
  /\ requests = 0
  /\ sessions = [i \in Sessions |-> SessionRow(DefaultSongDuration, NoTips)]
  /\ sessionActors = [i \in {} |-> Null]
  /\ undoStack = <<>>
  /\ lastApplied = NoAction
  /\ entered = [i \in Sessions |-> <<>>]

Next ==
  \/ \E sessionId \in Sessions : PostSong(sessionId)
  \/ \E songId \in SongIds, position \in Positions : PutPosition(songId, position)
  \/ \E songId \in SongIds, status \in Statuses : PutStatus(songId, status)
  \/ \E songId \in SongIds : DeleteSong(songId)
  \/ \E sessionId \in Sessions, songPositions \in ReorderInputs :
       PutReorder(sessionId, songPositions)
  \/ \E songId \in SongIds : PutUpdate(songId)
  \/ \E songId \in SongIds : PutCancel(songId)
  \/ \E songId \in SongIds, delay_minutes \in 0..MaxDelay :
       PutDelay(songId, delay_minutes)
  \/ \E songId \in SongIds, event \in ManualEvents : PostTransition(songId, event)
  \/ \E songId \in SongIds : delayTimerFires(songId)
  \/ Tick

Spec == Init /\ [][Next]_vars

\* the example queue: A, B, C waiting at positions 1, 2, 3 of one session,
\* advanced by the DJ through the transition endpoint only
QueueInit ==
  /\ songs = [i \in {1, 2, 3} |-> Row("S1", i)]
  /\ nextId = 4
  /\ actors = [i \in {} |-> Null]
  /\ now = 0
  /\ resp = Response("none", 0, "", "ok")
  /\ requests = 0
  /\ sessions = [i \in Sessions |-> SessionRow(DefaultSongDuration, NoTips)]
  /\ sessionActors = [i \in {} |-> Null]
  /\ undoStack = <<>>
  /\ lastApplied = NoAction
  /\ entered = [i \in Sessions |-> <<>>]

QueueNext ==
  \/ \E songId \in {1, 2, 3}, event \in ManualEvents : PostTransition(songId, event)
  \/ \E songId \in {1, 2, 3} : delayTimerFires(songId)
  \/ Tick

QueueSpec == QueueInit /\ [][QueueNext]_vars

\* timers fire and time passes
FairSpec ==
  /\ Spec
  /\ WF_vars(Tick)
  /\ \A songId \in SongIds : WF_vars(delayTimerFires(songId))

\* ------------------------------------------------------------ properties
\* a waiting song of the same session stands before song s
LowerWaiting(s) ==
  \E t \in getSongs(songs[s].session_id) :
    songs[t].status = "waiting" /\ songs[t].position < songs[s].position

\* the state of the machine instance a transition on song s is sent to
MachineState(s) == getOrCreate(s).value

Rejections == {"GuardRejected", "InvalidTransition"}

Status(s) == songs[s].status

Listed ==
  {<<"waiting", "PLAY">>, <<"waiting", "SKIP">>, <<"waiting", "DELAY">>,
   <<"waiting", "EDIT">>, <<"delayed", "DELAY_EXPIRED">>, <<"delayed", "SKIP">>,
   <<"playing", "COMPLETE">>, <<"playing", "SKIP">>}

ListedTarget(value, type) ==
  CASE type = "PLAY" -> "playing"
    [] type = "SKIP" -> "skipped"
    [] type = "DELAY" -> "delayed"
    [] type = "COMPLETE" -> "done"
    [] OTHER -> "waiting"

\* the instance of song s keeps its state, position and delay fields
InstanceKept(s) ==
  s \in DOMAIN actors =>
    /\ s \in DOMAIN actors'
    /\ actors'[s].value = actors[s].value
    /\ actors'[s].timer = actors[s].timer
    /\ actors'[s].context.position = actors[s].context.position
    /\ actors'[s].context.delayedUntil = actors[s].context.delayedUntil
    /\ actors'[s].context.delayMinutes = actors[s].context.delayMinutes

\* C4: an event sent to a song is accepted only for a listed (state, event)
\* pair and then leaves the song in the listed target; for every other
\* pair, every event in done or skipped included, it is rejected as
\* InvalidTransition and the stored rows and the instance are unchanged;
\* an instance changes state in no step but a listed transition or the
\* expiry timer
C4_OnlyListedTransitions ==
  [][/\ \A s \in DOMAIN songs, e \in ManualEvents :
          PostTransition(s, e) =>
            IF <<MachineState(s), e.type>> \in Listed
            THEN resp'.result = "ok" =>
                   songs'[s].status = ListedTarget(MachineState(s), e.type)
            ELSE /\ resp'.result = "InvalidTransition"
                 /\ songs' = songs
                 /\ InstanceKept(s)
     /\ \A s \in DOMAIN actors :
          (s \notin DOMAIN actors' \/ actors'[s].value # actors[s].value) =>
            \/ delayTimerFires(s)
            \/ \E e \in ManualEvents :
                 /\ <<actors[s].value, e.type>> \in Listed
                 /\ PostTransition(s, e)
    ]_vars

C4_Witness ==
  \E s \in DOMAIN songs :
    /\ songs[s].status = "done"
    /\ resp = Response("transition", s, "SKIP", "InvalidTransition")

\* C5: a song whose status is done or skipped keeps that status in every
\* step that does not delete it
C5_TerminalStatusImmutable ==
  [][\A s \in DOMAIN songs :
       (Status(s) \in FinalStates /\ s \in DOMAIN songs')
         => songs'[s].status = Status(s)]_vars

playingSongs(sessionId) ==
  {s \in getSongs(sessionId) : Status(s) = "playing"}

\* C6: no session has two songs with status playing
C6_AtMostOnePlaying ==
  \A sessionId \in Sessions : Cardinality(playingSongs(sessionId)) <= 1

\* C7: a PLAY sent to an instance in waiting is accepted exactly when the
\* song is the next playable song of its session in the store as it is when
\* the PLAY arrives, and is otherwise rejected as GuardRejected, whatever
\* the queue was when the instance was created
C7_PlayDecidedByCurrentQueue ==
  [][\A s \in DOMAIN songs :
       (MachineState(s) = "waiting" /\ PostTransition(s, Event("PLAY")))
         => /\ resp'.result = "ok" <=> getNextPlayableSong(songs[s].session_id) = s
            /\ resp'.result \in {"ok", "GuardRejected"}]_vars

\* a PLAY was accepted for a song whose instance was created at a position
\* behind a waiting song that a reorder has since put behind it
C7_Witness ==
  \E s \in DOMAIN songs \cap DOMAIN actors :
    /\ resp = Response("transition", s, "PLAY", "ok")
    /\ actors[s].value = "playing"
    /\ \E t \in getSongs(songs[s].session_id) \ {s} :
         /\ Status(t) = "waiting"
         /\ songs[s].position < songs[t].position
         /\ songs[t].position <= actors[s].context.position

DelayEvents == {e \in ManualEvents : e.type = "DELAY"}

C9_NoSecondDelay ==
  [][\A s \in DOMAIN songs :
       (songs[s].delayed_until # Null /\ songs[s].delayed_until > now)
         => /\ \A m \in 1..MaxDelay : PutDelay(s, m) => resp'.result # "ok"
            /\ \A e \in DelayEvents : PostTransition(s, e) => resp'.result # "ok"
    ]_vars

\* the expiry of a delay entered at `clock` with the given delayedUntil
Expiry(delayedUntil, clock) ==
  IF delayedUntil > clock THEN delayedUntil ELSE clock

\* C10: an accepted DELAY arms the instance's timer for delayedUntil, or
\* for the present instant if delayedUntil is already past; the timer moves
\* the instance to waiting no earlier than that, clearing delayedUntil and
\* delayMinutes in the instance and in the stored row; and an instance in
\* delayed with its timer armed does leave delayed
C10_DelayExpires ==
  /\ [][\A s \in DOMAIN songs :
          /\ \A e \in DelayEvents :
               (PostTransition(s, e) /\ resp'.result = "ok")
                 => /\ actors'[s].value = "delayed"
                    /\ actors'[s].timer = Expiry(e.delayedUntil, now)
          /\ (s \in DOMAIN actors /\ actors[s].value = "delayed"
              /\ delayTimerFires(s))
               => /\ actors[s].timer <= now
                  /\ actors'[s].value = "waiting"
                  /\ actors'[s].timer = Null
                  /\ actors'[s].context.delayedUntil = Null
                  /\ actors'[s].context.delayMinutes = Null
                  /\ songs'[s].status = "waiting"
                  /\ songs'[s].delayed_until = Null
                  /\ songs'[s].delay_minutes = Null]_vars
  /\ \A s \in SongIds :
       (s \in DOMAIN actors /\ actors[s].value = "delayed"
        /\ actors[s].timer # Null)
         ~> (s \notin DOMAIN actors \/ actors[s].value # "delayed")

\* the timer has just returned a song to waiting with its delay cleared
C10_Witness ==
  \E s \in DOMAIN songs \cap DOMAIN actors :
    /\ resp = Response("timer", s, AfterDelay, "ok")
    /\ now > 0
    /\ actors[s].value = "waiting"
    /\ actors[s].context.delayedUntil = Null
    /\ songs[s].status = "waiting"
    /\ songs[s].delayed_until = Null

\* C11: a SKIP accepted by an instance in delayed leaves the song skipped
\* with no instance and so no timer; a skipped song keeps that status; a
\* timer is armed only while its instance is in delayed, and its firing
\* disarms it, so one entry into delayed yields at most one automatic
\* return to waiting
C11_SkipCancelsDelayTimer ==
  [][\A s \in DOMAIN songs :
       /\ (MachineState(s) = "delayed" /\ PostTransition(s, Event("SKIP")))
            => /\ resp'.result = "ok"
               /\ songs'[s].status = "skipped"
               /\ s \notin DOMAIN actors'
       /\ Status(s) = "skipped" => songs'[s].status = "skipped"
       /\ (s \in DOMAIN actors' /\ actors'[s].timer # Null)
            => actors'[s].value = "delayed"
       /\ delayTimerFires(s)
            => /\ actors[s].value = "delayed"
               /\ actors'[s].value = "waiting"
               /\ actors'[s].timer = Null]_vars

\* a delayed song whose timer was armed has been skipped
C11_Witness ==
  \E s \in DOMAIN songs :
    /\ resp = Response("transition", s, "SKIP", "ok")
    /\ songs[s].status = "skipped"
    /\ songs[s].delayed_until # Null
    /\ s \notin DOMAIN actors

\* ------------------------------------------------- session specifications
\* the sessions driven through the transition endpoint, the tips endpoint
\* and the grace timer; the clock counts seconds
SessionNext ==
  \/ \E sessionId \in Sessions, event \in SessionEvents :
       PostSessionTransition(sessionId, event)
  \/ \E sessionId \in Sessions, tipHandles \in TipHandles :
       PutTips(sessionId, tipHandles)
  \/ \E sessionId \in Sessions : graceTimerFires(sessionId)
  \/ SessionTick

SessionSpec == Init /\ [][SessionNext]_vars

\* timers fire and time passes
FairSessionSpec ==
  /\ SessionSpec
  /\ WF_vars(SessionTick)
  /\ \A sessionId \in Sessions : WF_vars(graceTimerFires(sessionId))

\* the state of the machine instance a transition on the session is sent to
SessionState(sessionId) == getOrCreateSession(sessionId).value

\* the transitions of the session machine as the specification lists them
SessionListed ==
  {<<"active", "PAUSE">>, <<"active", "END">>, <<"active", "UPDATE_DURATION">>,
   <<"active", "UPDATE_TIPS">>, <<"paused", "RESUME">>, <<"paused", "END">>,
   <<"ending", "CANCEL_END">>}

SessionListedTarget(type) ==
  CASE type = "PAUSE" -> "paused"
    [] type = "END" -> "ending"
    [] OTHER -> "active"

\* C12: an event sent to a session is accepted exactly for a listed
\* (state, event) pair and then leaves the session in the listed target;
\* for every other pair, every event in ended included, it is rejected as
\* InvalidTransition and the stored rows and the instance are unchanged;
\* an instance changes state in no step but a listed transition or the
\* expiry of the grace timer
C12_OnlyListedSessionTransitions ==
  [][/\ \A sessionId \in Sessions, e \in SessionEvents :
          (/\ resp'.op = "sessionTransition"
           /\ resp'.event = e.type
           /\ PostSessionTransition(sessionId, e)) =>
            IF <<SessionState(sessionId), e.type>> \in SessionListed
            THEN /\ resp'.result = "ok"
                 /\ sessions'[sessionId].status = SessionListedTarget(e.type)
                 /\ sessionActors'[sessionId].value = SessionListedTarget(e.type)
            ELSE /\ resp'.result = "InvalidTransition"
                 /\ sessions' = sessions
                 /\ sessionId \in DOMAIN sessionActors
                      => sessionActors'[sessionId] = sessionActors[sessionId]
                 /\ \A other \in DOMAIN sessionActors' \ {sessionId} :
                      other \in DOMAIN sessionActors
     /\ \A sessionId \in DOMAIN sessionActors :
          (\/ sessionId \notin DOMAIN sessionActors'
           \/ sessionActors'[sessionId].value # sessionActors[sessionId].value) =>
            \/ graceTimerFires(sessionId)
            \/ \E e \in SessionEvents :
                 /\ resp'.event = e.type
                 /\ <<sessionActors[sessionId].value, e.type>> \in SessionListed
                 /\ PostSessionTransition(sessionId, e)
    ]_vars

\* an event has been refused by a session that the grace timer had ended
C12_Witness ==
  \E sessionId \in Sessions :
    /\ sessions[sessionId].status = "ended"
    /\ resp = Response("sessionTransition", sessionId, "RESUME", "InvalidTransition")

\* C13: an accepted END arms the grace timer one grace period ahead; the
\* timer fires only for an instance in ending, no earlier than that, and
\* leaves the session ended; a CANCEL_END sent to an instance in ending
\* returns it to active with the timer disarmed; a timer is armed only
\* while its instance is in ending and a session becomes ended in no step
\* but the firing of its timer; and an instance in ending with its timer
\* armed does leave ending
C13_GracePeriodEnds ==
  /\ [][\A sessionId \in Sessions :
          /\ (resp'.op = "sessionTransition"
              /\ PostSessionTransition(sessionId, SessionEvent("END"))
              /\ resp'.result = "ok")
               => /\ sessionActors'[sessionId].value = "ending"
                  /\ sessionActors'[sessionId].timer = now + GRACE_PERIOD
          /\ graceTimerFires(sessionId)
               => /\ sessionActors[sessionId].value = "ending"
                  /\ sessionActors[sessionId].timer <= now
                  /\ sessions'[sessionId].status = "ended"
                  /\ sessionId \notin DOMAIN sessionActors'
          /\ (resp'.op = "sessionTransition"
              /\ SessionState(sessionId) = "ending"
              /\ PostSessionTransition(sessionId, SessionEvent("CANCEL_END")))
               => /\ resp'.result = "ok"
                  /\ sessions'[sessionId].status = "active"
                  /\ sessionActors'[sessionId].value = "active"
                  /\ sessionActors'[sessionId].timer = Null
          /\ (sessionId \in DOMAIN sessionActors'
              /\ sessionActors'[sessionId].timer # Null)
               => sessionActors'[sessionId].value = "ending"
          /\ (sessions[sessionId].status # "ended"
              /\ sessions'[sessionId].status = "ended")
               => graceTimerFires(sessionId)]_vars
  /\ \A sessionId \in Sessions :
       (/\ sessionId \in DOMAIN sessionActors
        /\ sessionActors[sessionId].value = "ending"
        /\ sessionActors[sessionId].timer # Null
        /\ sessionActors[sessionId].timer <= MaxSessionTime)
         ~> (\/ sessions[sessionId].status = "ended"
             \/ /\ sessionId \in DOMAIN sessionActors
                /\ sessionActors[sessionId].value # "ending")

\* an ending was cancelled and more than a grace period has passed with
\* the session still active
C13_Witness ==
  \E sessionId \in Sessions :
    /\ resp = Response("sessionTransition", sessionId, "CANCEL_END", "ok")
    /\ sessions[sessionId].status = "active"
    /\ sessionId \in DOMAIN sessionActors
    /\ sessionActors[sessionId].timer = Null
    /\ now > GRACE_PERIOD

\* the head of the example queue and its session driven through the two
\* transition endpoints and the two timers; the clock counts seconds
TimerNext ==
  \/ \E songId \in {1}, event \in ManualEvents : PostTransition(songId, event)
  \/ \E songId \in {1} : delayTimerFires(songId)
  \/ \E event \in SessionEvents : PostSessionTransition("S1", event)
  \/ graceTimerFires("S1")
  \/ SessionTick

TimerSpec == QueueInit /\ [][TimerNext]_vars

\* the last operation applied was the firing of the delay timer of song s
DelayTimerApplied(s) == resp.op = "timer" /\ resp.id = s

\* the last operation applied was the firing of the session's grace timer
GraceTimerApplied(sessionId) == resp.op = "sessionTimer" /\ resp.id = sessionId

\* C14 as stated: once the delay timer of a song has fired and been applied
\* a SKIP sent to the song is rejected, and once the grace timer of a
\* session has fired and been applied a CANCEL_END sent to it is rejected;
\* neither changes the stored rows
C14_LateEventRejected ==
  [][/\ \A s \in DOMAIN songs :
          (DelayTimerApplied(s) /\ PostTransition(s, Event("SKIP")))
            => (resp'.result \in Rejections /\ songs' = songs)
     /\ \A sessionId \in Sessions :
          (GraceTimerApplied(sessionId)
           /\ PostSessionTransition(sessionId, SessionEvent("CANCEL_END")))
            => (resp'.result \in Rejections /\ sessions' = sessions)
    ]_vars

\* C14 amended: once the grace timer has fired and been applied the session
\* is ended and a CANCEL_END is rejected as InvalidTransition, the row
\* unchanged; once the delay timer has fired and been applied the song is
\* waiting with its timer disarmed, and a SKIP is judged by waiting, which
\* accepts it: the song becomes skipped
C14_LateEventMeetsCurrentState ==
  [][/\ \A s \in DOMAIN songs :
          DelayTimerApplied(s) =>
            /\ MachineState(s) = "waiting"
            /\ actors[s].timer = Null
            /\ PostTransition(s, Event("SKIP"))
                 => /\ resp'.result = "ok"
                    /\ songs'[s].status = "skipped"
                    /\ s \notin DOMAIN actors'
     /\ \A sessionId \in Sessions :
          GraceTimerApplied(sessionId) =>
            /\ sessions[sessionId].status = "ended"
            /\ sessionId \notin DOMAIN sessionActors
            /\ PostSessionTransition(sessionId, SessionEvent("CANCEL_END"))
                 => /\ resp'.result = "InvalidTransition"
                    /\ sessions' = sessions
                    /\ sessionActors' = sessionActors
    ]_vars

\* a CANCEL_END has been refused by the session the grace timer had ended
C14_Witness ==
  /\ resp = Response("sessionTransition", "S1", "CANCEL_END", "InvalidTransition")
  /\ sessions["S1"].status = "ended"
  /\ "S1" \notin DOMAIN sessionActors

Failures == {"GuardRejected", "InvalidTransition", "NotFound"}

\* C16: a transition that is rejected writes nothing: the stored rows are
\* the same before and after, and the instance keeps its state, timer and
\* delay fields
C16_RejectionWritesNothing ==
  [][\A s \in SongIds, e \in ManualEvents :
       (/\ resp'.op = "transition"
        /\ resp'.result \in Failures
        /\ PostTransition(s, e))
         => /\ songs' = songs
            /\ s \in DOMAIN songs => InstanceKept(s)
            /\ \A t \in DOMAIN actors \ {s} :
                 t \in DOMAIN actors' /\ actors'[t] = actors[t]]_vars

\* a PLAY was rejected by a cached instance in waiting whose stored row a
\* status request had changed in the meantime; the row is as that request
\* left it
C16_Witness ==
  \E s \in DOMAIN songs \cap DOMAIN actors :
    /\ resp = Response("transition", s, "PLAY", "GuardRejected")
    /\ actors[s].value = "waiting"
    /\ songs[s].status = "done"

\* --------------------------------------------- failing persistence writes
\* (variant: the failed write is reported as a success)
PostTransitionWriteFails_reportsOk(songId, event) ==
  /\ Served
  /\ getSongById(songId) # {}
  /\ can(prepare(songId, event), event)
  /\ resp' = Response("transition", songId, event.type, "ok")
  /\ actors' = cache(songId, send(prepare(songId, event), event, now))
  /\ UNCHANGED <<songs, nextId, now>>
  /\ UNCHANGED sessionVars
  /\ UNCHANGED auxVars

\* POST /api/songs/:id/transition when persistStatus fails: the event was
\* valid, the write did not happen and the caller gets PersistenceError;
\* the instance is left provisional (moved) or is dropped
PostTransitionWriteFails(songId, event) ==
  /\ Served
  /\ getSongById(songId) # {}
  /\ can(prepare(songId, event), event)
  /\ resp' = Response("transition", songId, event.type, "PersistenceError")
  /\ \/ actors' = cache(songId, send(prepare(songId, event), event, now))
     \/ actors' = [i \in DOMAIN actors \ {songId} |-> actors[i]]
  /\ UNCHANGED <<songs, nextId, now>>
  /\ UNCHANGED sessionVars
  /\ UNCHANGED auxVars

\* the example queue advanced through the transition endpoint, whose
\* persistence writes may fail
FaultNext ==
  \/ QueueNext
  \/ \E songId \in {1, 2, 3}, event \in ManualEvents :
       PostTransitionWriteFails(songId, event)

FaultSpec == QueueInit /\ [][FaultNext]_vars

\* the state the machine moves the instance of song s to on event e
TargetState(s, e) ==
  songMachine(prepare(s, e).value, prepare(s, e).context, e).target

Waiting(sessionId) ==
  {i \in DOMAIN songs :
     songs[i].session_id = sessionId /\ songs[i].status = "waiting"}

\* C18: for every session the next playable song is null exactly when the
\* session has no waiting song, and is otherwise a waiting song of the
\* session that no waiting song of the session precedes by position
C18_NextPlayableIsLowestWaiting ==
  \A sessionId \in Sessions :
    LET next == getNextPlayableSong(sessionId)
    IN  /\ next = Null <=> Waiting(sessionId) = {}
        /\ next # Null =>
              /\ next \in Waiting(sessionId)
              /\ \A j \in Waiting(sessionId) :
                    songs[next].position <= songs[j].position

\* two songs of a session wait, the later request standing first: it is the
\* next playable one, and the other session, with no waiting song, has none
C18_Witness ==
  /\ {1, 2} \subseteq Waiting("S1")
  /\ songs[2].position < songs[1].position
  /\ getNextPlayableSong("S1") = 2
  /\ getNextPlayableSong("S2") = Null

\* what the DJ's drag and drop sends: the listed songs, a filtered list
\* being a part of the queue, numbered from 1 in their new order
QueueReorders ==
  UNION {{f \in [D -> 1..Cardinality(D)] :
            \A i, j \in D : i # j => f[i] # f[j]} : D \in SUBSET {1, 2, 3}}

\* the DJ's buttons that take a song out of the waiting queue
QueueEvents == {Event("PLAY"), Event("SKIP"), DelayEvent(MaxTime, MaxDelay)}

\* the example queue, reordered by the DJ between transitions
ReorderNext ==
  \/ \E songId \in {1, 2, 3}, event \in QueueEvents : PostTransition(songId, event)
  \/ \E songPositions \in QueueReorders : PutReorder("S1", songPositions)

ReorderSpec == QueueInit /\ [][ReorderNext]_vars

\* the position a reorder request asks for song j: the supplied one, or
\* the one the song has
NewPosition(songPositions, j) ==
  IF j \in DOMAIN songPositions THEN songPositions[j] ELSE songs[j].position

\* the registry would accept a PLAY of song s
PlayAccepted(s) == can(prepare(s, Event("PLAY")), Event("PLAY"))

\* C19: when a reorder request has been served, every song holds the
\* position the request asked for, the next playable song is the waiting
\* song with the lowest of the new positions (none when no song waits), and
\* a PLAY is accepted for that song and for no other
C19_ReorderDecidesNextPlayable ==
  /\ [][resp'.op = "reorder" =>
          \A songPositions \in QueueReorders :
            PutReorder("S1", songPositions) =>
              /\ \A j \in DOMAIN songs :
                    /\ songs'[j].position = NewPosition(songPositions, j)
                    /\ songs'[j].status = songs[j].status
              /\ IF Waiting("S1") = {}
                 THEN getNextPlayableSong("S1")' = Null
                 ELSE /\ getNextPlayableSong("S1")' \in Waiting("S1")
                      /\ \A j \in Waiting("S1") :
                            NewPosition(songPositions, getNextPlayableSong("S1")')
                              <= NewPosition(songPositions, j)
     ]_vars
  /\ [](resp.op = "reorder" =>
          \A s \in DOMAIN songs :
            PlayAccepted(s) <=> s = getNextPlayableSong("S1"))

\* the first and the third of three waiting songs have been swapped, after
\* a PLAY of the third was refused: the third is now next and the only
\* song a PLAY is accepted for
C19_Witness ==
  /\ resp.op = "reorder"
  /\ \A i \in {1, 2, 3} : songs[i].status = "waiting"
  /\ songs[1].position = 3 /\ songs[2].position = 2 /\ songs[3].position = 1
  /\ 3 \in DOMAIN actors
  /\ getNextPlayableSong("S1") = 3
  /\ PlayAccepted(3) /\ ~PlayAccepted(1) /\ ~PlayAccepted(2)

\* request bodies: the lists of the DJ's drag and drop, songs numbered from
\* 1 in their new order, in which any position may be null
ReorderLists ==
  {l \in UNION {[1..n -> [id : {1, 2, 3}, position : {1, 2, 3, Null}]] :
                  n \in 1..3} :
     /\ \A k, m \in DOMAIN l : k # m => l[k].id # l[m].id
     /\ \A k \in DOMAIN l : l[k].position \in {k, Null}}

\* the example queue reordered by lists that may make an update throw
ReorderListNext ==
  \E songPositions \in ReorderLists : PutReorderList("S1", songPositions)

ReorderListSpec == QueueInit /\ [][ReorderListNext]_vars

\* C20: a served reorder request either answers ok with every pair of its
\* list in effect and every other song where it was, or answers 500, one of
\* its updates having thrown, with every position as before the request
C20_ReorderAllOrNothing ==
  [][resp'.op = "reorder" =>
       \A songPositions \in ReorderLists :
         PutReorderList("S1", songPositions) =>
           \/ /\ resp'.result = "ok"
              /\ \A k \in DOMAIN songPositions :
                    songs'[songPositions[k].id].position = songPositions[k].position
              /\ \A i \in DOMAIN songs :
                    (\A k \in DOMAIN songPositions : songPositions[k].id # i)
                      => songs'[i] = songs[i]
           \/ /\ resp'.result = "500"
              /\ \E k \in DOMAIN songPositions : songPositions[k].position = Null
              /\ songs' = songs]_vars

\* a reorder whose second update threw after the first had moved a song:
\* the request was answered 500 and the queue is in its initial order
C20_Witness ==
  /\ resp = Response("reorder", 0, "S1", "500")
  /\ requests = 1
  /\ runUpdates(songs, <<[id |-> 3, position |-> 1],
                         [id |-> 1, position |-> Null]>>).rows[3].position = 1
  /\ \A i \in {1, 2, 3} : songs[i].position = i

\* C21: a reorder request for a session changes no song's status and no
\* field of a song of another session, whatever ids its pairs name
C21_ReorderTouchesOwnPositionsOnly ==
  [][(resp'.op = "reorder" /\ requests' # requests) =>
       \A j \in DOMAIN songs :
         /\ songs'[j].status = songs[j].status
         /\ songs[j].session_id # resp'.event => songs'[j] = songs[j]]_vars

\* singers add songs and the DJ deletes songs, nothing else happens
AddDeleteNext ==
  \/ \E sessionId \in Sessions : PostSongUpTo(sessionId, MaxAdded)
  \/ \E songId \in 1..MaxAdded : DeleteSong(songId)

AddDeleteSpec == Init /\ [][AddDeleteNext]_vars

\* C22: after additions and deletions only, no two songs of a session hold
\* the same position
C22_PositionsUnique ==
  \A i, j \in DOMAIN songs :
    (i # j /\ songs[i].session_id = songs[j].session_id)
      => songs[i].position # songs[j].position

\* a song was added to a session after the first of its songs had been
\* deleted: it stands behind the songs that are left
C22_Witness ==
  \E i, j \in DOMAIN songs :
    /\ resp = Response("add", j, "", "ok")
    /\ i < j
    /\ songs[i].session_id = songs[j].session_id
    /\ Cardinality(getSongs(songs[j].session_id)) = 2
    /\ songs[i].position = 2
    /\ songs[j].position = 3

\* C23: when a reorder sent by the DJ's drag and drop has been served, no
\* two songs of the session hold the same position
C23_DashboardReorderLeavesNoTies ==
  resp.op = "reorder" =>
    \A i, j \in getSongs(resp.event) :
      i # j => songs[i].position # songs[j].position

\* the positions held in a session
PositionsOf(sessionId) == {songs[i].position : i \in getSongs(sessionId)}

\* a request has just added song n
Added(n) ==
  /\ resp'.op = "add"
  /\ requests' # requests
  /\ n \in DOMAIN songs' \ DOMAIN songs

\* C24 as stated: a song that is added is waiting and its position is the
\* number of songs its session held plus one
C24_NewSongAtCountPlusOne ==
  [][\A n \in 1..MaxAdded :
       Added(n) =>
         /\ songs'[n].status = "waiting"
         /\ songs'[n].position
              = Cardinality(getSongs(songs'[n].session_id)) + 1]_vars

\* C24: a song that is added is waiting and its position is the highest
\* position its session held plus one, 1 in a session without songs; that
\* is the number of songs the session held plus one whenever those songs
\* held the positions 1..n
C24_NewSongBehindHighest ==
  [][\A n \in 1..MaxAdded :
       Added(n) =>
         /\ DOMAIN songs' = DOMAIN songs \cup {n}
         /\ \A i \in DOMAIN songs : songs'[i] = songs[i]
         /\ songs'[n].status = "waiting"
         /\ \A p \in PositionsOf(songs'[n].session_id) : p < songs'[n].position
         /\ songs'[n].position - 1 \in PositionsOf(songs'[n].session_id) \cup {0}
         /\ PositionsOf(songs'[n].session_id)
              = 1..Cardinality(getSongs(songs'[n].session_id))
              => songs'[n].position
                   = Cardinality(getSongs(songs'[n].session_id)) + 1]_vars

\* a song was added to a session of two songs left at positions 1 and 3 by
\* a deletion: it is waiting at position 4
C24_Witness ==
  \E n \in DOMAIN songs :
    /\ resp = Response("add", n, "", "ok")
    /\ songs[n].status = "waiting"
    /\ songs[n].position = 4
    /\ PositionsOf(songs[n].session_id) = {1, 3, 4}

\* the events a song machine instance can receive
MachineEvents == ManualEvents \cup {Event(AfterDelay)}

\* C25: every step that changes the stored status of a song it does not
\* delete is a transition the song machine accepts: some event is accepted
\* by the song's instance and leads to the status that is stored
C25_StatusWrittenByTransitionsOnly ==
  [][\A s \in DOMAIN songs \cap DOMAIN songs' :
       songs'[s].status # songs[s].status =>
         \E e \in MachineEvents :
           /\ can(prepare(s, e), e)
           /\ TargetState(s, e) = songs'[s].status]_vars

SingerOps == {"update", "cancel", "delay"}

\* C26: a singer's update, cancel or delay request succeeds only for a
\* song stored as waiting; for a song stored as playing, done, skipped or
\* delayed it is answered 400 and no row changes, a request that does not
\* succeed changes no row, and one that succeeds changes its own song only
C26_SingerOpsOnlyWhileWaiting ==
  [][(resp'.op \in SingerOps /\ requests' # requests) =>
       /\ resp'.result = "ok" =>
            /\ resp'.id \in DOMAIN songs
            /\ songs[resp'.id].status = "waiting"
            /\ DOMAIN songs' = DOMAIN songs
            /\ \A i \in DOMAIN songs \ {resp'.id} : songs'[i] = songs[i]
       /\ resp'.result # "ok" => songs' = songs
       /\ \A s \in DOMAIN songs :
            (resp'.id = s /\ songs[s].status # "waiting") =>
              resp'.result = "400" /\ songs' = songs]_vars

\* a singer asked to delay a song the DJ had delayed: the request was
\* answered 400 and the song is still stored as delayed
C26_Witness ==
  \E s \in DOMAIN songs :
    /\ resp = Response("delay", s, "", "400")
    /\ songs[s].status = "delayed"
    /\ songs[s].delayed_until # Null

\* C27: getState reports a song that transitions have taken to done or
\* skipped in that state, and in done and skipped every entry of can is
\* false
C27_TerminalStateCanNothing ==
  \A s \in DOMAIN songs :
    /\ songs[s].status \in FinalStates => getState(s).value = songs[s].status
    /\ getState(s).value \in FinalStates =>
         \A k \in DOMAIN getState(s).can : ~getState(s).can[k]

\* a song has gone waiting, playing, done: getState reports done and
\* neither play nor skip can be done
C27_Witness ==
  \E s \in DOMAIN songs :
    /\ resp = Response("transition", s, "COMPLETE", "ok")
    /\ getState(s).value = "done"
    /\ ~getState(s).can.play
    /\ ~getState(s).can.skip

\* the DJ asks whether a song can be played or skipped, between transitions
QueryEvents == {Event("PLAY"), Event("SKIP")}

QueryNext ==
  \/ \E songId \in {1, 2, 3}, event \in QueueEvents \cup {Event("COMPLETE")} :
       PostTransition(songId, event)
  \/ \E songId \in {1, 2, 3}, event \in QueryEvents :
       GetCanTransition(songId, event)

QuerySpec == QueueInit /\ [][QueryNext]_vars

C29_NoTerminalActorCached ==
  /\ \A s \in DOMAIN actors : actors[s].value \notin FinalStates
  /\ \A s \in DOMAIN songs : songs[s].status \in FinalStates => s \notin DOMAIN actors
  /\ \A i \in DOMAIN sessionActors : sessionActors[i].value # "ended"
  /\ \A i \in Sessions : sessions[i].status = "ended" => i \notin DOMAIN sessionActors

\* the grace timer has ended the session after the song was played to the
\* end: neither has a cached instance
C29_Witness ==
  /\ resp = Response("sessionTimer", "S1", AfterGrace, "ok")
  /\ sessions["S1"].status = "ended"
  /\ "S1" \notin DOMAIN sessionActors
  /\ songs[1].status = "done"
  /\ 1 \notin DOMAIN actors

UpdateEvents == {e \in SessionEvents : e.type \in {"UPDATE_DURATION", "UPDATE_TIPS"}}

\* the context of the machine instance a transition on the session is sent to
SessionContext(sessionId) == getOrCreateSession(sessionId).context

\* C30: UPDATE_DURATION and UPDATE_TIPS are accepted exactly in active;
\* the instance then stays active, the session stays stored as active and
\* the context changes in songDuration alone, respectively in tipHandles
\* alone, to the value the event carries; in paused, ending and ended they
\* are rejected as InvalidTransition, and neither the stored rows nor the
\* instance change
C30_UpdatesOnlyInActive ==
  [][\A sessionId \in Sessions, e \in UpdateEvents :
       (/\ resp'.op = "sessionTransition"
        /\ resp'.event = e.type
        /\ PostSessionTransition(sessionId, e)) =>
         IF SessionState(sessionId) = "active"
         THEN /\ resp'.result = "ok"
              /\ sessions'[sessionId].status = "active"
              /\ sessionActors'[sessionId].value = "active"
              /\ sessionActors'[sessionId].timer = Null
              /\ sessionActors'[sessionId].context =
                   IF e.type = "UPDATE_DURATION"
                   THEN [songDuration |-> e.songDuration,
                         tipHandles |-> SessionContext(sessionId).tipHandles]
                   ELSE [songDuration |-> SessionContext(sessionId).songDuration,
                         tipHandles |-> e.tipHandles]
         ELSE /\ resp'.result = "InvalidTransition"
              /\ sessions' = sessions
              /\ sessionId \in DOMAIN sessionActors
                   => sessionActors'[sessionId] = sessionActors[sessionId]
              /\ sessionId \in DOMAIN sessionActors'
                   => sessionActors'[sessionId].context = SessionContext(sessionId)]_vars

\* an active session whose duration had been set to 180 took UPDATE_TIPS:
\* it is active with the new handles and the duration of 180
C30_Witness ==
  /\ resp = Response("sessionTransition", "S1", "UPDATE_TIPS", "ok")
  /\ "S1" \in DOMAIN sessionActors
  /\ sessionActors["S1"].value = "active"
  /\ sessionActors["S1"].context =
       [songDuration |-> 180, tipHandles |-> [NoTips EXCEPT !.venmo_handle = 1]]
  /\ sessions["S1"].status = "active"

\* C31: no song of a session stored as paused goes from waiting to playing
C31_PausedQueueDoesNotAdvance ==
  [][\A s \in DOMAIN songs \cap DOMAIN songs' :
       (/\ sessions[songs[s].session_id].status = "paused"
        /\ songs[s].status = "waiting")
         => songs'[s].status # "playing"]_vars

\* C32: once a session is stored as ended it stays ended, and no song of
\* it changes status and no transition of a song of it is answered ok
C32_EndedSessionIsFrozen ==
  [][\A i \in Sessions :
       sessions[i].status = "ended" =>
         /\ sessions'[i].status = "ended"
         /\ \A s \in DOMAIN songs \cap DOMAIN songs' :
              songs[s].session_id = i =>
                /\ songs'[s].status = songs[s].status
                /\ ~(/\ requests' # requests
                      /\ resp' = Response("transition", s, resp'.event, "ok"))]_vars

\* the DJ works the example queue from the page, undoing actions
UndoNext ==
  \/ \E songId \in {1, 2, 3}, event \in QueueEvents \cup {Event("COMPLETE")} :
       DjTransition(songId, event)
  \/ DjUndo

UndoSpec == QueueInit /\ [][UndoNext]_vars

C34_CachedStateEqualsStored ==
  /\ \A s \in DOMAIN actors :
       s \in DOMAIN songs /\ getStatusFromState(actors[s]) = songs[s].status
  /\ \A s \in DOMAIN songs : getState(s).value = songs[s].status

\* evict(entityId): the instance is dropped from the cache with its timer;
\* the stored row is untouched
evict(songId) ==
  /\ songId \in DOMAIN actors
  /\ actors' = [i \in DOMAIN actors \ {songId} |-> actors[i]]
  /\ resp' = Response("evict", songId, "", "ok")
  /\ UNCHANGED <<songs, nextId, now, requests>>
  /\ UNCHANGED sessionVars
  /\ UNCHANGED auxVars

\* the example queue worked by the DJ while instances are evicted
EvictNext ==
  \/ \E songId \in {1, 2, 3}, event \in QueueEvents : PostTransition(songId, event)
  \/ \E songId \in {1, 2, 3} : delayTimerFires(songId)
  \/ \E songId \in {1, 2, 3} : evict(songId)
  \/ Tick

\* timers that are due fire and time passes
EvictSpec ==
  /\ QueueInit
  /\ [][EvictNext]_vars
  /\ WF_vars(Tick)
  /\ \A songId \in {1, 2, 3} : WF_vars(delayTimerFires(songId))

\* C35: a song stored as delayed is eventually stored with another status
C35_DelayedEventuallyLeaves ==
  \A s \in {1, 2, 3} :
    (songs[s].status = "delayed") ~> (songs[s].status # "delayed")

\* C36: no PLAY is accepted for a song whose stored delayed_until is set
\* and still in the future, and such a song is not stored as playing by it
C36_NoPlayBeforeDelayExpires ==
  [][\A s \in DOMAIN songs :
       (/\ songs[s].delayed_until # Null
        /\ songs[s].delayed_until > now
        /\ requests' # requests
        /\ resp'.op = "transition" /\ resp'.id = s /\ resp'.event = "PLAY")
         => (resp'.result # "ok" /\ songs'[s].status # "playing")]_vars

\* a song of the session of s is stored as delayed
DelayedBeside(s) ==
  \E x \in getSongs(songs[s].session_id) \ {s} : songs[x].status = "delayed"

\* C37: while a song of the session is delayed, a PLAY for the waiting song
\* with no waiting song before it is accepted and makes it playing, whatever
\* the position of the delayed song; and when the delay timer of a song has
\* put it back to waiting with no waiting song before it, that song is the
\* next playable song and a PLAY for it is accepted
C37_DelayedSongDoesNotBlock ==
  /\ [][\A s \in DOMAIN songs :
         (/\ songs[s].status = "waiting"
          /\ ~LowerWaiting(s)
          /\ DelayedBeside(s)
          /\ requests' # requests
          /\ resp'.op = "transition" /\ resp'.id = s /\ resp'.event = "PLAY")
           => (resp'.result = "ok" /\ songs'[s].status = "playing")]_vars
  /\ [](\A x \in DOMAIN songs :
         (DelayTimerApplied(x) /\ songs[x].status = "waiting" /\ ~LowerWaiting(x))
           => (getNextPlayableSong(songs[x].session_id) = x /\ PlayAccepted(x)))

\* a PLAY was accepted for a song standing behind a delayed song
C37_Witness ==
  \E s \in DOMAIN songs, x \in DOMAIN songs :
    /\ resp = Response("transition", s, "PLAY", "ok")
    /\ songs[s].status = "playing"
    /\ songs[x].status = "delayed"
    /\ songs[x].session_id = songs[s].session_id
    /\ songs[x].position < songs[s].position

\* the delay of the first song of the line ran out while others waited
C37_WitnessExpired ==
  \E x \in DOMAIN songs, s \in DOMAIN songs :
    /\ DelayTimerApplied(x)
    /\ songs[x].status = "waiting"
    /\ songs[s].status = "waiting"
    /\ songs[x].position < songs[s].position
    /\ getNextPlayableSong(songs[x].session_id) = x

\* the songs of the session a PLAY would be accepted for
Playable(sessionId) == {s \in getSongs(sessionId) : PlayAccepted(s)}

\* C38: in a session with a waiting song a PLAY is accepted for exactly one
\* song, the next playable one, and in a session with none for no song
C38_ExactlyOnePlayable ==
  \A sessionId \in Sessions :
    IF Waiting(sessionId) # {}
    THEN Playable(sessionId) = {getNextPlayableSong(sessionId)}
    ELSE Playable(sessionId) = {}

\* every DELAY would be accepted for song s
DelayAccepted(s) == \A e \in DelayEvents : can(prepare(s, e), e)

\* the last operation applied returned song s from delayed to waiting
ReturnedToWaiting(s) ==
  \/ DelayTimerApplied(s)
  \/ resp = Response("transition", s, "DELAY_EXPIRED", "ok")

\* C39: a song returned from delayed to waiting by its timer or by
\* DELAY_EXPIRED is waiting with its delay fields null, in the row and in the
\* instance; and a waiting song, its instance in waiting, with no delay
\* stored or with a stored delay that has run out accepts a DELAY
C39_DelayCanBeRepeated ==
  \A s \in DOMAIN songs :
    /\ ReturnedToWaiting(s) =>
         /\ songs[s].status = "waiting"
         /\ songs[s].delayed_until = Null /\ songs[s].delay_minutes = Null
         /\ getOrCreate(s).context.delayedUntil = Null
         /\ getOrCreate(s).context.delayMinutes = Null
    /\ (/\ songs[s].status = "waiting"
        /\ MachineState(s) = "waiting"
        /\ (songs[s].delayed_until = Null \/ songs[s].delayed_until <= now))
         => DelayAccepted(s)

\* POST /api/sessions/:id/transition, the time of an accepted END noted
PostSessionTransitionNoted(sessionId, event) ==
  /\ Served
  /\ transitionSession(sessionId, event)
  /\ entered' =
       IF resp'.result = "ok" /\ event.type = "END"
       THEN [entered EXCEPT ![sessionId] = Append(@, now)]
       ELSE entered
  /\ UNCHANGED <<songs, nextId, actors, now, undoStack, lastApplied>>

\* the events that move a session between its states
LifecycleEvents ==
  {SessionEvent(t) : t \in {"PAUSE", "RESUME", "END", "CANCEL_END"}}

\* one session ended, the ending cancelled, ended again; the clock counts
\* seconds
GraceNext ==
  \/ \E event \in LifecycleEvents : PostSessionTransitionNoted("S1", event)
  \/ graceTimerFires("S1")
  \/ SessionTick

GraceSpec == Init /\ [][GraceNext]_vars

\* the time the latest ending of the session began
LastEntered(sessionId) == entered[sessionId][Len(entered[sessionId])]

\* C40: a session is ended only when a full grace period has passed since
\* its latest END was accepted, whatever endings were cancelled before; it
\* becomes ended from ending only, and while it is active or paused no
\* grace timer is pending
C40_FreshGracePeriod ==
  /\ [][\A i \in Sessions :
         (sessions[i].status # "ended" /\ sessions'[i].status = "ended")
           => (sessions[i].status = "ending" /\ resp'.op = "sessionTimer")]_vars
  /\ [](\A i \in Sessions :
         /\ sessions[i].status = "ended" =>
              /\ entered[i] # <<>>
              /\ now >= LastEntered(i) + GRACE_PERIOD
         /\ sessions[i].status \in {"active", "paused"} =>
              (i \notin DOMAIN sessionActors \/ sessionActors[i].timer = Null))

\* an ending was cancelled, END was accepted again, and the session ended
\* a grace period after the second END
C40_Witness ==
  /\ sessions["S1"].status = "ended"
  /\ resp.op = "sessionTimer"
  /\ Len(entered["S1"]) = 2
  /\ now = LastEntered("S1") + GRACE_PERIOD
  /\ entered["S1"][1] < LastEntered("S1")

====
